---- MODULE Spec2Model ----
(***************************************************************************)
(* Model of the URL shortener of src/url-shortner/main.py.                 *)
(*                                                                         *)
(* The table "urls" is the shared state.  Every request runs its handler   *)
(* with a database session of its own (get_db, main.py:74-79), and the     *)
(* table lives in a SQLite file that every server process opens            *)
(* (main.py:20-22).  The handlers are "async def" bodies without an await, *)
(* so inside one event loop a handler runs to its end before the next one  *)
(* starts; requests served by different server processes on the same file  *)
(* interleave at the database statements.  The model takes the statements  *)
(* (a SELECT, a flush-and-COMMIT) as the atomic steps: the driver opens no *)
(* transaction for a SELECT, so nothing is held between a handler's query  *)
(* and its commit.                                                         *)
(*                                                                         *)
(* Optional values are sequences: <<>> is Python's None, <<x>> is x.       *)
(* Strings that are compared character-wise (short codes, aliases) are     *)
(* sequences of one-character strings.                                     *)
(***************************************************************************)
EXTENDS Integers, Sequences, FiniteSets, TLC

\* ---------------------------------------------------------------- bounds
MaxTime == 2      \* the clock runs 0..MaxTime, one unit is one day
MaxRequests == 3  \* requests the servers take in one run
CodeLen == 1      \* length of generated codes (the default length, scaled)
MaxGenLen == 6    \* lengths 0..MaxGenLen are passed to generate_short_code

\* The server processes (one request in flight each).
Workers == {"w1", "w2"}

None == <<>>
Some(x) == <<x>>

\* Python truthiness of Optional[int] and Optional[str].
TruthyInt(o) == o # None /\ o[1] # 0
TruthyStr(o) == o # None /\ o[1] # <<>>

\* ------------------------------------------------------------ inputs
\* string.ascii_letters + string.digits, cut to the first characters.
characters == {"a", "b"}

\* Request URLs as the client sends them.
Urls == {"https://a.com", "http://-x-.com", "not-a-url"}

\* pydantic's HttpUrl: what the request model accepts before the handler runs.
HttpUrl(u) == u \in {"https://a.com", "https://b.com", "http://-x-.com"}

\* str(request.url): the text of a parsed HttpUrl.  The parser normalises the
\* URL: an empty path becomes "/".
UrlStr(u) ==
    CASE u = "https://a.com" -> "https://a.com/"
      [] u = "https://b.com" -> "https://b.com/"
      [] u = "http://-x-.com" -> "http://-x-.com/"
      [] OTHER -> u

\* validators.url: stricter than HttpUrl on the host name.
is_valid_url(s) == s \in {"https://a.com/", "https://b.com/"}

\* A generator that draws one character too many.
generate_one_more(length) == [1..length + 1 -> characters]

\* A generator that also draws punctuation.
generate_with_punctuation(length) == [1..length -> characters \cup {"-"}]

generate_short_code(length) == [1..length -> characters]

short_url_of(code) == <<"http://localhost:8000/", code>>

generate_qr_code(url) == <<"data:image/png;base64,", url>>

\* Custom aliases the clients ask for: absent, and one a generated code can equal.
Aliases == {None, Some([i \in 1..CodeLen |-> "a"])}

ExpiresInDays == {None, Some(0), Some(1), Some(0 - 1)}

Titles == {None}

\* Codes the clients ask to resolve.
Codes == generate_short_code(CodeLen) \cup {a[1] : a \in {x \in Aliases : TruthyStr(x)}}

BulkInputs == {<<"http://-x-.com", "https://a.com">>,
               <<"https://a.com", "not-a-url", "https://b.com">>}

VARIABLES urls, now, pc, req, loc, out, served, taken

vars == <<urls, now, pc, req, loc, out, served, taken>>

\* ------------------------------------------------------------- the table
\* class URL: a row.  id is the autoincrement key, the row's position.
URL(id, short_code, original_url, created_at, expires_at, title) ==
    [id |-> id, short_code |-> short_code, original_url |-> original_url,
     created_at |-> created_at, click_count |-> 0, expires_at |-> expires_at,
     is_active |-> TRUE, title |-> title]

\* A query without its filter.
first_unfiltered(table, code) == IF table = <<>> THEN None ELSE Some(table[1])

\* db.query(URL).filter(URL.short_code == code).first(): None or the row.
first(table, code) ==
    LET hits == {i \in 1..Len(table) : table[i].short_code = code}
    IN IF hits = {} THEN None
       ELSE Some(table[CHOOSE i \in hits : \A j \in hits : i <= j])

\* A column without the unique index.
UniqueOff(table, code) == FALSE

\* short_code = Column(String, unique=True): an INSERT of a code the table
\* holds fails.
UniqueViolation(table, code) == first(table, code) # None

\* expires_at of a new row.
expires_at_of(days, t) == IF TruthyInt(days) THEN Some(t + days[1]) ELSE None

\* An expiry check that never fires.
never_expired(url_record, t) == FALSE

is_url_expired(url_record, t) ==
    IF url_record.expires_at = None THEN FALSE ELSE t > url_record.expires_at[1]

\* --------------------------------------------------------------- responses
HTTPException(status_code, detail) == [status |-> status_code, detail |-> detail]

URLResponse(code, original_url, click_count, created_at, expires_at, is_active, title) ==
    [short_url |-> short_url_of(code), original_url |-> original_url,
     click_count |-> click_count, created_at |-> created_at,
     expires_at |-> expires_at, is_active |-> is_active, title |-> title,
     qr_code |-> generate_qr_code(short_url_of(code))]

Ok(body) == [status |-> 200, body |-> body]

\* An exception no handler catches: the server answers 500.
InternalServerError == [status |-> 500, detail |-> "Internal Server Error"]

\* The request model rejected the body: the handler never runs.
Unprocessable == [status |-> 422, detail |-> "value is not a valid URL"]

NoReq == [op |-> "none"]
NoLoc == [k |-> "none"]

Init ==
    /\ urls = <<>>
    /\ now = 0
    /\ pc = [w \in Workers |-> "idle"]
    /\ req = [w \in Workers |-> NoReq]
    /\ loc = [w \in Workers |-> NoLoc]
    /\ out = None
    /\ served = <<>>
    /\ taken = 0

\* The free worker w takes the next request.  The workers are alike and keep
\* nothing from one request to the next, so a request goes to the first free one.
Take(w) ==
    /\ pc[w] = "idle"
    /\ w = "w2" => pc["w1"] # "idle"
    /\ taken < MaxRequests
    /\ taken' = taken + 1

\* The worker w goes on to pc q with request r and locals l; no response is
\* sent in this step.
Step(w, q, r, l) ==
    /\ pc' = [pc EXCEPT ![w] = q]
    /\ req' = [req EXCEPT ![w] = r]
    /\ loc' = [loc EXCEPT ![w] = l]
    /\ out' = None

\* The worker w answers request r with a and is free for the next request.
\* out is the response sent in the step that led to the state, if any.
Return(w, r, a) ==
    /\ pc' = [pc EXCEPT ![w] = "idle"]
    /\ req' = [req EXCEPT ![w] = NoReq]
    /\ loc' = [loc EXCEPT ![w] = NoLoc]
    /\ out' = Some([req |-> r, resp |-> a])

\* ------------------------------------------------------------- shorten_url
\* The state the handler is in once it holds a code no row had when it asked.
shorten_url_free(w, r, short_code) ==
    Step(w, "shorten_commit", r,
         [short_code |-> short_code,
          expires_at |-> expires_at_of(r.expires_in_days, now)])

\* A handler that, on an alias a row holds, takes the row over before it
\* refuses the request.
shorten_url_takeover(w, url, custom_alias, expires_in_days, title, candidate) ==
    LET r == [op |-> "shorten", url |-> url, custom_alias |-> custom_alias,
              expires_in_days |-> expires_in_days, title |-> title]
        held == IF TruthyStr(custom_alias) THEN first(urls, custom_alias[1]) ELSE None
    IN
    /\ Take(w)
    /\ UNCHANGED <<now, served>>
    /\ IF ~HttpUrl(url) THEN UNCHANGED urls /\ Return(w, r, Unprocessable)
       ELSE IF ~is_valid_url(UrlStr(url))
       THEN UNCHANGED urls /\ Return(w, r, HTTPException(400, "Invalid URL format"))
       ELSE IF held # None
       THEN /\ urls' = [urls EXCEPT ![held[1].id].is_active = FALSE]
            /\ Return(w, r, HTTPException(400, "Custom alias already exists"))
       ELSE IF TruthyStr(custom_alias)
       THEN UNCHANGED urls /\ shorten_url_free(w, r, custom_alias[1])
       ELSE IF first(urls, candidate) # None
       THEN UNCHANGED urls /\ Step(w, "shorten_generate", r, NoLoc)
       ELSE UNCHANGED urls /\ shorten_url_free(w, r, candidate)

\* POST /api/shorten, lines 119-144 up to the first query and what follows it
\* without touching the database.  candidate is what generate_short_code()
\* returns in the first turn of the loop of lines 135-139.
shorten_url(w, url, custom_alias, expires_in_days, title, candidate) ==
    LET r == [op |-> "shorten", url |-> url, custom_alias |-> custom_alias,
              expires_in_days |-> expires_in_days, title |-> title]
    IN
    /\ Take(w)
    /\ UNCHANGED <<urls, now, served>>
    /\ IF ~HttpUrl(url) THEN Return(w, r, Unprocessable)
       ELSE IF ~is_valid_url(UrlStr(url))
       THEN Return(w, r, HTTPException(400, "Invalid URL format"))
       ELSE IF TruthyStr(custom_alias)
       THEN IF first(urls, custom_alias[1]) # None
            THEN Return(w, r, HTTPException(400, "Custom alias already exists"))
            ELSE shorten_url_free(w, r, custom_alias[1])
       ELSE IF first(urls, candidate) # None
       THEN Step(w, "shorten_generate", r, NoLoc)
       ELSE shorten_url_free(w, r, candidate)

\* A further turn of the loop of lines 135-139.
shorten_url_generate(w, candidate) ==
    /\ pc[w] = "shorten_generate"
    /\ UNCHANGED <<urls, now, served, taken>>
    /\ IF first(urls, candidate) # None
       THEN Step(w, "shorten_generate", req[w], NoLoc)
       ELSE shorten_url_free(w, req[w], candidate)

\* Lines 147-170: db.add, db.commit, db.refresh and the response.
shorten_url_commit(w) ==
    /\ pc[w] = "shorten_commit"
    /\ UNCHANGED <<now, taken>>
    /\ IF UniqueViolation(urls, loc[w].short_code)
       THEN /\ Return(w, req[w], InternalServerError)
            /\ UNCHANGED <<urls, served>>
       ELSE /\ urls' = Append(urls, URL(Len(urls) + 1, loc[w].short_code,
                                        UrlStr(req[w].url), now, loc[w].expires_at,
                                        req[w].title))
            /\ served' = Append(served, 0)
            /\ Return(w, req[w],
                      Ok(URLResponse(loc[w].short_code, UrlStr(req[w].url), 0, now,
                                     loc[w].expires_at, TRUE, req[w].title)))

\* ------------------------------------------------------------ redirect_url
RedirectResponse(url) == [status |-> 307, url |-> url]

\* GET /{short_code}, lines 175-188: the query, the checks on the loaded row
\* and the increment in memory.
redirect_url(w, short_code) ==
    LET r == [op |-> "redirect", short_code |-> short_code]
        url_record == first(urls, short_code)
    IN
    /\ Take(w)
    /\ UNCHANGED <<urls, now, served>>
    /\ IF url_record = None
       THEN Return(w, r, HTTPException(404, "URL not found"))
       ELSE IF ~url_record[1].is_active
       THEN Return(w, r, HTTPException(410, "URL has been deactivated"))
       ELSE IF is_url_expired(url_record[1], now)
       THEN Return(w, r, HTTPException(410, "URL has expired"))
       ELSE Step(w, "redirect_commit", r,
                 [url_record |-> [url_record[1] EXCEPT !.click_count = @ + 1]])

\* An UPDATE that writes every column of the loaded row back.
flush_row(table, url_record) == [table EXCEPT ![url_record.id] = url_record]

\* A commit that flushes nothing.
flush_nothing(table, url_record) == table

\* The UPDATE a commit flushes for a row whose click_count was set: only the
\* changed column is written.
flush_click_count(table, url_record) ==
    [table EXCEPT ![url_record.id].click_count = url_record.click_count]

\* Lines 189-191: db.commit() and the redirect.
redirect_url_commit(w) ==
    LET url_record == loc[w].url_record IN
    /\ pc[w] = "redirect_commit"
    /\ UNCHANGED <<now, taken>>
    /\ urls' = flush_click_count(urls, url_record)
    /\ served' = [served EXCEPT ![url_record.id] = @ + 1]
    /\ Return(w, req[w], RedirectResponse(url_record.original_url))

\* ----------------------------------------------------------- get_url_stats
\* GET /api/stats/{short_code}, lines 194-214.
get_url_stats(w, short_code) ==
    LET r == [op |-> "stats", short_code |-> short_code]
        url_record == first(urls, short_code)
    IN
    /\ Take(w)
    /\ UNCHANGED <<urls, now, served>>
    /\ IF url_record = None
       THEN Return(w, r, HTTPException(404, "URL not found"))
       ELSE Return(w, r, Ok(URLResponse(url_record[1].short_code,
                                        url_record[1].original_url,
                                        url_record[1].click_count,
                                        url_record[1].created_at,
                                        url_record[1].expires_at,
                                        url_record[1].is_active,
                                        url_record[1].title)))

\* ---------------------------------------------------------- deactivate_url
\* DELETE /api/deactivate/{short_code}, lines 275-282: the query and the
\* assignment in memory.
deactivate_url(w, short_code) ==
    LET r == [op |-> "deactivate", short_code |-> short_code]
        url_record == first(urls, short_code)
    IN
    /\ Take(w)
    /\ UNCHANGED <<urls, now, served>>
    /\ IF url_record = None
       THEN Return(w, r, HTTPException(404, "URL not found"))
       ELSE Step(w, "deactivate_commit", r,
                 [url_record |-> [url_record[1] EXCEPT !.is_active = FALSE]])

\* The UPDATE a commit flushes for a row whose is_active was set.
flush_is_active(table, url_record) ==
    [table EXCEPT ![url_record.id].is_active = url_record.is_active]

\* Lines 283-285: db.commit() and the message.
deactivate_url_commit(w) ==
    /\ pc[w] = "deactivate_commit"
    /\ UNCHANGED <<now, served, taken>>
    /\ urls' = flush_is_active(urls, loc[w].url_record)
    /\ Return(w, req[w], Ok([message |-> "URL deactivated successfully"]))

\* ------------------------------------------------------- bulk_shorten_urls
BulkURLResponse(results, errors) ==
    [results |-> results, total_created |-> Len(results), errors |-> errors]

\* Lines 222-227: the loop skips the entries is_valid_url refuses, with an
\* error entry each, up to the next entry it accepts or the end of the list.
RECURSIVE bulk_skip(_, _)
bulk_skip(l, urls_in) ==
    IF l.i > Len(urls_in) \/ is_valid_url(UrlStr(urls_in[l.i])) THEN l
    ELSE bulk_skip([l EXCEPT !.i = @ + 1,
                             !.errors = Append(@, <<"Invalid URL format: ",
                                                    UrlStr(urls_in[l.i])>>)],
                   urls_in)

\* From the head of the loop with locals l: into the loop of lines 230-234
\* for the next entry, or the return of lines 268-272.
bulk_continue(w, r, l) ==
    LET m == bulk_skip(l, r.urls) IN
    IF m.i > Len(r.urls)
    THEN Return(w, r, Ok(BulkURLResponse(m.results, m.errors)))
    ELSE Step(w, "bulk_generate", r, m)

\* POST /api/bulk-shorten: the request model (lines 48-50), lines 219-227.
bulk_shorten_urls(w, urls_in, expires_in_days) ==
    LET r == [op |-> "bulk", urls |-> urls_in, expires_in_days |-> expires_in_days] IN
    /\ Take(w)
    /\ UNCHANGED <<urls, now, served>>
    /\ IF \E i \in 1..Len(urls_in) : ~HttpUrl(urls_in[i])
       THEN Return(w, r, Unprocessable)
       ELSE bulk_continue(w, r, [i |-> 1, results |-> <<>>, errors |-> <<>>])

\* One turn of the loop of lines 230-234, then lines 237-239.
bulk_shorten_urls_generate(w, candidate) ==
    LET l == loc[w] IN
    /\ pc[w] = "bulk_generate"
    /\ UNCHANGED <<urls, now, served, taken>>
    /\ IF first(urls, candidate) # None
       THEN Step(w, "bulk_generate", req[w], l)
       ELSE Step(w, "bulk_commit", req[w],
                 [i |-> l.i, results |-> l.results, errors |-> l.errors,
                  short_code |-> candidate,
                  expires_at |-> expires_at_of(req[w].expires_in_days, now)])

\* Lines 242-266: the insert, the result entry, and the except branch; then
\* the loop goes on.
bulk_shorten_urls_commit(w) ==
    LET l == loc[w]
        url == req[w].urls[l.i]
    IN
    /\ pc[w] = "bulk_commit"
    /\ UNCHANGED <<now, taken>>
    /\ IF UniqueViolation(urls, l.short_code)
       THEN /\ UNCHANGED <<urls, served>>
            /\ bulk_continue(w, req[w],
                    [i |-> l.i + 1, results |-> l.results,
                     errors |-> Append(l.errors,
                                       <<"Error processing ", UrlStr(url), ": IntegrityError">>)])
       ELSE /\ urls' = Append(urls, URL(Len(urls) + 1, l.short_code, UrlStr(url), now,
                                        l.expires_at, None))
            /\ served' = Append(served, 0)
            /\ bulk_continue(w, req[w],
                    [i |-> l.i + 1,
                     results |-> Append(l.results,
                                        URLResponse(l.short_code, UrlStr(url), 0, now,
                                                    l.expires_at, TRUE, None)),
                     errors |-> l.errors])

\* ------------------------------------------------------------ environment
\* datetime.utcnow() moves on.
Tick ==
    /\ now < MaxTime
    /\ now' = now + 1
    /\ out' = None
    /\ UNCHANGED <<urls, pc, req, loc, served, taken>>

Next ==
    \/ \E w \in Workers, url \in Urls, a \in Aliases, d \in ExpiresInDays, t \in Titles,
          c \in generate_short_code(CodeLen) : shorten_url(w, url, a, d, t, c)
    \/ \E w \in Workers, c \in generate_short_code(CodeLen) : shorten_url_generate(w, c)
    \/ \E w \in Workers : shorten_url_commit(w)
    \/ \E w \in Workers, c \in Codes : redirect_url(w, c)
    \/ \E w \in Workers : redirect_url_commit(w)
    \/ \E w \in Workers, c \in Codes : get_url_stats(w, c)
    \/ \E w \in Workers, c \in Codes : deactivate_url(w, c)
    \/ \E w \in Workers : deactivate_url_commit(w)
    \/ \E w \in Workers, u \in BulkInputs, d \in ExpiresInDays : bulk_shorten_urls(w, u, d)
    \/ \E w \in Workers, c \in generate_short_code(CodeLen) : bulk_shorten_urls_generate(w, c)
    \/ \E w \in Workers : bulk_shorten_urls_commit(w)
    \/ Tick

Spec == Init /\ [][Next]_vars

\* ==================================================================== claims
\* Vocabulary of the claims, stated on the table and the responses alone.
Rows == 1..Len(urls)
RowsOf(c) == {i \in Rows : urls[i].short_code = c}
Sent == out # None
Answer == out[1].resp
Asked == out[1].req
AliasTaken == HTTPException(400, "Custom alias already exists")
InvalidUrl == HTTPException(400, "Invalid URL format")

\* C1: in every reachable state no two rows of the table have the same
\* short_code.
C1_UniqueShortCode ==
    \A i, j \in Rows : i # j => urls[i].short_code # urls[j].short_code

\* Two rows are stored, the second by a bulk request that ran after or beside a
\* shorten request.
C1_Witness ==
    /\ Len(urls) = 2
    /\ Sent /\ Asked.op = "bulk" /\ Answer.status = 200
    /\ Answer.body.total_created = 1

\* C2: a shorten request with a custom alias ends in success or, when a row
\* has the alias, in AliasTaken and in no other failure (the URL being valid);
\* of two requests racing for one alias the loser gets AliasTaken.
C2_AliasTakenOnly ==
    (Sent /\ Asked.op = "shorten" /\ TruthyStr(Asked.custom_alias)
          /\ Answer # Unprocessable /\ Answer # InvalidUrl)
    => (Answer.status = 200 \/ Answer = AliasTaken)

\* C3: click_count of a row is the number of redirects of its code that were
\* answered with the target: no increment is lost.
C3_NoLostIncrement ==
    \A i \in Rows : urls[i].click_count = served[i]

\* C4: click_count never decreases, grows by exactly one in the step that
\* answers a redirect with the target, and changes in no other step.
C4_CountsEachRedirect ==
    [][\A i \in Rows :
          /\ urls'[i].click_count >= urls[i].click_count
          /\ served'[i] = served[i] + 1 => urls'[i].click_count = urls[i].click_count + 1
          /\ served'[i] = served[i] => urls'[i].click_count = urls[i].click_count]_vars

\* C5: no redirect is answered with the target while the row of its code is
\* inactive, also when the redirect runs beside the deactivation.
C5_InactiveNeverRedirects ==
    (Sent /\ Asked.op = "redirect" /\ Answer.status = 307)
    => \A i \in RowsOf(Asked.short_code) : urls[i].is_active

\* expires_at of row i is present and earlier than the current time.
ExpiredRow(i) == urls[i].expires_at # None /\ urls[i].expires_at[1] < now

\* The step is worker w taking a request.
Takes(w) == pc[w] = "idle" /\ taken' = taken + 1 /\ (pc'[w] # "idle" \/ out' # None)

\* C6: a redirect that finds the row of its code expired at the time it reads
\* the clock is answered 410 and leaves the table as it is, whether the row is
\* active or not; a stats request for the code is answered with the row.
C6_ExpiredIsGone ==
    [][\A w \in Workers : \A i \in Rows :
          (Takes(w) /\ ExpiredRow(i)) =>
             /\ ~(pc'[w] = "redirect_commit" /\ req'[w].short_code = urls[i].short_code)
             /\ (out' # None /\ out'[1].req = [op |-> "redirect", short_code |-> urls[i].short_code])
                   => (out'[1].resp.status = 410 /\ urls' = urls)
             /\ (out' # None /\ out'[1].req = [op |-> "stats", short_code |-> urls[i].short_code])
                   => /\ out'[1].resp.status = 200
                      /\ out'[1].resp.body.original_url = urls[i].original_url
                      /\ out'[1].resp.body.click_count = urls[i].click_count
                      /\ out'[1].resp.body.created_at = urls[i].created_at
                      /\ out'[1].resp.body.expires_at = urls[i].expires_at
                      /\ out'[1].resp.body.is_active = urls[i].is_active
                      /\ out'[1].resp.body.title = urls[i].title
                      /\ out'[1].resp.body.short_url[2] = urls[i].short_code]_vars

\* A redirect was answered "expired" for an active row whose expiry lay in the
\* future when the row was made.
C6_Witness ==
    /\ Sent /\ Asked.op = "redirect"
    /\ Answer = HTTPException(410, "URL has expired")
    /\ \E i \in RowsOf(Asked.short_code) :
          urls[i].is_active /\ ExpiredRow(i) /\ urls[i].expires_at[1] > urls[i].created_at

\* C7: redirect, stats and deactivate for a code no row has are answered 404
\* in the step that looks the code up, and leave the table as it is.
C7_UnknownIsNotFound ==
    [][\A w \in Workers :
          Takes(w) =>
             /\ pc'[w] \in {"redirect_commit", "deactivate_commit"}
                   => RowsOf(req'[w].short_code) # {}
             /\ (out' # None /\ out'[1].req.op \in {"redirect", "stats", "deactivate"}
                   /\ RowsOf(out'[1].req.short_code) = {})
                   => (out'[1].resp = HTTPException(404, "URL not found") /\ urls' = urls)]_vars

\* A deactivate request for a code no row has was answered 404 while the table
\* holds a row of another code.
C7_Witness ==
    /\ Sent /\ Asked.op = "deactivate" /\ Answer.status = 404
    /\ RowsOf(Asked.short_code) = {} /\ Len(urls) > 0

\* C8: every bulk request is answered with a result list and an error list
\* that together hold one entry per URL of the request, total_created being
\* the number of results: an entry that fails never takes the others with it.
C8_BulkIsPartial ==
    (Sent /\ Asked.op = "bulk")
    => /\ Answer.status = 200
       /\ Len(Answer.body.results) + Len(Answer.body.errors) = Len(Asked.urls)
       /\ Answer.body.total_created = Len(Answer.body.results)

\* The codes of the rows a successful shorten or bulk answer reports.
CreatedCodes(o) ==
    IF o.req.op = "shorten" THEN {o.resp.body.short_url[2]}
    ELSE {o.resp.body.results[k].short_url[2] : k \in 1..Len(o.resp.body.results)}

\* C9: a row made by a shorten or bulk request with expires_in_days zero or
\* negative does not redirect: right after the answer that reports the row, no
\* redirect of its code passes the checks.
C9_NonPositiveDaysNeverRedirect ==
    [][\A w \in Workers :
          (/\ Sent /\ Asked.op \in {"shorten", "bulk"} /\ Answer.status = 200
           /\ Asked.expires_in_days # None /\ Asked.expires_in_days[1] <= 0)
          => ~(/\ Takes(w) /\ pc'[w] = "redirect_commit"
               /\ req'[w].short_code \in CreatedCodes(out[1]))]_vars

\* C10: a deactivate request that finds its row sets is_active to FALSE and is
\* answered with success, and no step makes an inactive row active again.
C10_DeactivationIsOneWay ==
    [][/\ \A i \in Rows : ~urls[i].is_active => ~urls'[i].is_active
       /\ \A w \in Workers :
             (pc[w] = "deactivate_commit" /\ pc'[w] = "idle")
             => /\ \A i \in RowsOf(req[w].short_code) : ~urls'[i].is_active
                /\ out' # None /\ out'[1].resp.status = 200]_vars

\* A deactivation was answered with success while a redirect of the same code
\* that had read the row as active still waits to commit.
C10_Witness ==
    /\ Sent /\ Asked.op = "deactivate" /\ Answer.status = 200
    /\ \A i \in RowsOf(Asked.short_code) : ~urls[i].is_active
    /\ \E w \in Workers :
          /\ pc[w] = "redirect_commit"
          /\ req[w].short_code = Asked.short_code
          /\ loc[w].url_record.is_active

\* C11: a shorten request without a custom alias and with a valid URL never
\* fails: whatever other requests insert between its existence query and its
\* insert, it is answered with a record.
C11_GeneratedCodeNeverFails ==
    (Sent /\ Asked.op = "shorten" /\ ~TruthyStr(Asked.custom_alias)
          /\ HttpUrl(Asked.url) /\ is_valid_url(UrlStr(Asked.url)))
    => Answer.status = 200

\* The generated codes: every code the allocation loop can draw.
CodeSpace == generate_short_code(CodeLen)

\* What the handler in worker w does next once it has its request; the server
\* keeps running a handler it started.
WorkerStep(w) ==
    \/ \E c \in CodeSpace : shorten_url_generate(w, c)
    \/ shorten_url_commit(w)
    \/ redirect_url_commit(w)
    \/ deactivate_url_commit(w)
    \/ \E c \in CodeSpace : bulk_shorten_urls_generate(w, c)
    \/ bulk_shorten_urls_commit(w)

\* A turn of an allocation loop in which secrets.choice draws a code no row has.
DrawsFree(w) ==
    \E c \in CodeSpace :
       /\ shorten_url_generate(w, c) \/ bulk_shorten_urls_generate(w, c)
       /\ pc'[w] \in {"shorten_commit", "bulk_commit"}

\* The program under fair scheduling and fair random choice: a started handler
\* goes on, and a draw that is possible again and again is made in the end.
LiveSpec ==
    Spec /\ \A w \in Workers : WF_vars(WorkerStep(w)) /\ SF_vars(DrawsFree(w))

\* C12: every request that enters the allocation loop of generated codes
\* leaves it in the end, also when every code of the code space is taken.
C12_AllocationLoopEnds ==
    \A w \in Workers :
       (pc[w] \in {"shorten_generate", "bulk_generate"})
       ~> (pc[w] \notin {"shorten_generate", "bulk_generate"})

\* ------------------------------------------------------- aliases as sent
\* The alias of test_api.py's test_custom_alias ("neetcode-github"), cut to
\* three characters: it has a hyphen.
HyphenAlias == Some(<<"n", "-", "g">>)

\* The program with clients that also send the hyphenated alias, as
\* test_custom_alias does: a valid URL and an expiry in days.
AliasNext ==
    \/ Next
    \/ \E w \in Workers, c \in CodeSpace :
          shorten_url(w, "https://a.com", HyphenAlias, Some(1), None, c)

AliasSpec == Init /\ [][AliasNext]_vars

\* string.ascii_letters + string.digits in full.
Alphabet62 ==
    {"a", "b", "c", "d", "e", "f", "g", "h", "i", "j", "k", "l", "m",
     "n", "o", "p", "q", "r", "s", "t", "u", "v", "w", "x", "y", "z",
     "A", "B", "C", "D", "E", "F", "G", "H", "I", "J", "K", "L", "M",
     "N", "O", "P", "Q", "R", "S", "T", "U", "V", "W", "X", "Y", "Z",
     "0", "1", "2", "3", "4", "5", "6", "7", "8", "9"}

Alphanumeric(code) == code # <<>> /\ \A k \in 1..Len(code) : code[k] \in Alphabet62

\* C13: the short_code of every row is not empty and has only characters of
\* the 62-character alphabet, the rows made with a custom alias included.
C13_EveryCodeAlphanumeric ==
    \A i \in Rows : Alphanumeric(urls[i].short_code)

\* C13, amended: a row made from a generated code has a code that is not empty
\* and has only characters of the 62-character alphabet; a row made with a
\* custom alias has the alias as its code, character for character, and the
\* insert of an alias no row has succeeds whatever its characters are.
C13_GeneratedAlphanumericAliasVerbatim ==
    [][\A w \in Workers :
          /\ (pc[w] \in {"shorten_commit", "bulk_commit"} /\ pc'[w] # pc[w]
                /\ Len(urls') = Len(urls) + 1)
             => LET code == urls'[Len(urls')].short_code IN
                IF req[w].op = "shorten" /\ TruthyStr(req[w].custom_alias)
                THEN code = req[w].custom_alias[1]
                ELSE Alphanumeric(code)
          /\ (pc[w] = "shorten_commit" /\ pc'[w] = "idle"
                /\ RowsOf(loc[w].short_code) = {})
             => /\ Len(urls') = Len(urls) + 1
                /\ out' # None /\ out'[1].resp.status = 200]_vars

\* A shorten request with the hyphenated alias was answered with a record, and
\* the table holds a row under that alias beside a row of a generated code.
C13_Witness ==
    /\ Sent /\ Asked.op = "shorten" /\ Asked.custom_alias = HyphenAlias
    /\ Answer.status = 200 /\ Answer.body.short_url[2] = HyphenAlias[1]
    /\ RowsOf(HyphenAlias[1]) # {}
    /\ \E i \in Rows : urls[i].short_code \in CodeSpace

NoResponse == [status |-> 0, detail |-> "connection closed"]

\* Line 189 with a store fault: db.commit() raises, nothing is written, and
\* no handler catches the exception.
redirect_url_commit_fails(w) ==
    /\ pc[w] = "redirect_commit"
    /\ UNCHANGED <<urls, now, served, taken>>
    /\ Return(w, req[w], InternalServerError)

\* Lines 189-191 with the server process stopping after db.commit() returned
\* and before the redirect of line 191 is sent.
redirect_url_crash(w) ==
    /\ pc[w] = "redirect_commit"
    /\ UNCHANGED <<now, served, taken>>
    /\ urls' = flush_click_count(urls, loc[w].url_record)
    /\ Return(w, req[w], NoResponse)

\* Lines 242-266 with generate_qr_code of line 253 raising after the commit of
\* line 248: the except branch of line 265 files the entry under errors.
bulk_shorten_urls_qr_fails(w) ==
    LET l == loc[w]
        url == req[w].urls[l.i]
    IN
    /\ pc[w] = "bulk_commit"
    /\ ~UniqueViolation(urls, l.short_code)
    /\ UNCHANGED <<now, taken>>
    /\ urls' = Append(urls, URL(Len(urls) + 1, l.short_code, UrlStr(url), now,
                                l.expires_at, None))
    /\ served' = Append(served, 0)
    /\ bulk_continue(w, req[w],
            [i |-> l.i + 1, results |-> l.results,
             errors |-> Append(l.errors,
                               <<"Error processing ", UrlStr(url), ": qrcode">>)])

\* The program in an environment where commits can fail, a server process can
\* stop, and the QR rendering can raise.
FaultNext ==
    \/ Next
    \/ \E w \in Workers : redirect_url_commit_fails(w)
    \/ \E w \in Workers : redirect_url_crash(w)
    \/ \E w \in Workers : bulk_shorten_urls_qr_fails(w)

FaultSpec == Init /\ [][FaultNext]_vars

\* C15: click_count of a row is never more than the number of redirects of
\* its code answered with the target, and a redirect that passed the checks
\* (answered neither 404 nor 410) is answered with the target, also when the
\* commit of the increment fails or the server stops right after it.
C15_NeverOverCountsNeverBlocks ==
    /\ \A i \in Rows : urls[i].click_count <= served[i]
    /\ (Sent /\ Asked.op = "redirect" /\ Answer.status \notin {404, 410})
       => Answer.status = 307

\* ------------------------------------------------- generate_short_code alone
\* def generate_short_code(length: int = 6): the default of the parameter.
DefaultLength == 6

\* The length the body of generate_short_code sees: the argument, or the
\* default when the caller passes none.
length_or_default(arg) == IF arg = None THEN DefaultLength ELSE arg[1]

\* One call of generate_short_code with argument arg (None: no argument) that
\* returns code.
generate_short_code_call(arg, code) ==
    /\ code \in generate_short_code(length_or_default(arg))
    /\ out' = Some([req |-> [op |-> "generate_short_code", length |-> arg],
                    resp |-> code])
    /\ UNCHANGED <<urls, now, pc, req, loc, served, taken>>

GenNext ==
    \E arg \in {None} \cup {Some(n) : n \in 0..MaxGenLen} :
       \E code \in generate_short_code(length_or_default(arg)) :
          generate_short_code_call(arg, code)

\* Calls of generate_short_code with every argument and every outcome of the
\* random choices.
GenSpec == Init /\ [][GenNext]_vars

\* C16: generate_short_code(n) returns a string of exactly n characters, each
\* of the 62-character alphabet, for every n >= 0; called without an argument
\* it returns 6 characters.
C16_LengthAndAlphabet ==
    (Sent /\ Asked.op = "generate_short_code")
    => /\ Len(Answer) = (IF Asked.length = None THEN 6 ELSE Asked.length[1])
       /\ \A k \in 1..Len(Answer) : Answer[k] \in Alphabet62

\* A call without an argument returned six characters, not all the same.
C16_Witness ==
    /\ Sent /\ Asked.op = "generate_short_code" /\ Asked.length = None
    /\ Len(Answer) = 6 /\ Answer[1] # Answer[6]

\* Worker w leaves the pc q in this step (one step moves one worker).
Leaves(w, q) == pc[w] = q /\ pc'[w] # q

\* C17: no step deletes a row or changes the id, short_code, original_url or
\* created_at of a row; the step that answers a redirect with the target
\* changes nothing but click_count of the rows of its code; the commit of a
\* deactivation changes nothing but is_active of the rows of its code; a stats
\* request changes nothing; the steps of shorten and bulk requests leave every
\* existing row as it is and at most append rows.
C17_Frame ==
    [][/\ Len(urls') >= Len(urls)
       /\ \A i \in Rows :
             /\ urls'[i].id = urls[i].id
             /\ urls'[i].short_code = urls[i].short_code
             /\ urls'[i].original_url = urls[i].original_url
             /\ urls'[i].created_at = urls[i].created_at
       /\ \A w \in Workers :
             /\ Leaves(w, "redirect_commit")
                => /\ Len(urls') = Len(urls)
                   /\ \A i \in Rows :
                         /\ [urls'[i] EXCEPT !.click_count = urls[i].click_count] = urls[i]
                         /\ urls'[i] # urls[i] => urls[i].short_code = req[w].short_code
             /\ Leaves(w, "deactivate_commit")
                => /\ Len(urls') = Len(urls)
                   /\ \A i \in Rows :
                         /\ [urls'[i] EXCEPT !.is_active = urls[i].is_active] = urls[i]
                         /\ urls'[i] # urls[i] => urls[i].short_code = req[w].short_code
             /\ (Takes(w) /\ out' # None /\ out'[1].req.op = "stats") => urls' = urls
             /\ (\/ Takes(w) /\ out' # None /\ out'[1].req.op \in {"shorten", "bulk"}
                 \/ Takes(w) /\ req'[w].op \in {"shorten", "bulk"}
                 \/ \E q \in {"shorten_generate", "shorten_commit",
                                "bulk_generate", "bulk_commit"} : Leaves(w, q))
                => \A i \in Rows : urls'[i] = urls[i]]_vars

\* A deactivation was committed for a row that redirects had counted on: the
\* commit had a click_count to leave alone.
C17_Witness ==
    /\ Sent /\ Asked.op = "deactivate" /\ Answer.status = 200
    /\ \E i \in RowsOf(Asked.short_code) :
          urls[i].click_count > 0 /\ ~urls[i].is_active

\* C18: the step that answers a shorten request with InvalidUrl or AliasTaken
\* leaves the table as it is: no row is added and none is changed, the row
\* that holds the alias included.
C18_FailedShortenLeavesStore ==
    [][(out' # None /\ out'[1].req.op = "shorten"
          /\ out'[1].resp \in {InvalidUrl, AliasTaken})
       => urls' = urls]_vars

\* A shorten request was refused with AliasTaken while the row that holds the
\* alias is active and has been redirected to.
C18_Witness ==
    /\ Sent /\ Asked.op = "shorten" /\ Answer = AliasTaken
    /\ \E i \in RowsOf(Asked.custom_alias[1]) :
          urls[i].click_count > 0 /\ urls[i].is_active

\* C19: in a bulk request the result list and the table agree: the step that
\* ends the work on an entry stores a row exactly when it adds a result, also
\* when the QR rendering raises after the commit; and the answer has one
\* result or error per URL, total_created being the number of results.
C19_BulkResultsAgreeWithStore ==
    [][/\ \A w \in Workers :
             Leaves(w, "bulk_commit")
             => LET results == IF pc'[w] = "idle" THEN out'[1].resp.body.results
                               ELSE loc'[w].results
                IN (Len(urls') = Len(urls) + 1) <=> (Len(results) = Len(loc[w].results) + 1)
       /\ (out' # None /\ out'[1].req.op = "bulk" /\ out'[1].resp.status = 200)
          => /\ Len(out'[1].resp.body.results) + Len(out'[1].resp.body.errors)
                   = Len(out'[1].req.urls)
             /\ out'[1].resp.body.total_created = Len(out'[1].resp.body.results)]_vars

\* C20: once a row is inactive its click_count does not change any more, also
\* when a redirect that read the row as active commits after the deactivation.
C20_NoCountAfterDeactivation ==
    [][\A i \in Rows :
          ~urls[i].is_active => urls'[i].click_count = urls[i].click_count]_vars

====
